---- MODULE Spec2Model ----
(***************************************************************************)
(* The two browser-automation scripts of jules-scratch/verification:       *)
(*   verify_context_tracker.py   launch, new_page, goto, screenshot, close *)
(*   verify_document_tagging.py  launch, new_page, then run_verification   *)
(*                               inside try ... finally: browser.close()   *)
(* Each driver call is one action.  A call either completes or raises; a   *)
(* raised error leaves the enclosing blocks the way Python unwinds them.   *)
(* The application under test and the disk are the environment: the server *)
(* may be down, elements may be missing, the click may leave any value in  *)
(* the chat input.                                                         *)
(***************************************************************************)
EXTENDS Naturals, Sequences, FiniteSets, TLC

\* Number of script runs, one after the other, that the model follows.
MaxRuns == 3

CONTEXT_TRACKER == "verify_context_tracker.py"
DOCUMENT_TAGGING == "verify_document_tagging.py"
Scripts == {CONTEXT_TRACKER, DOCUMENT_TAGGING}

\* document_to_select = "Monet"
document_to_select == "Monet"

\* f" @{document_to_select} ": the f-string is built by concatenation.
ExpectedValueNoTrailingSpace == " @" \o document_to_select
ExpectedValue == " @" \o document_to_select \o " "

\* Values the application may leave in the chat input after the click.
InputValues ==
  {" @Monet ", " @Monet", "@Monet ", "@Monet", " @Monet  ", " @monet ", "@", ""}

VARIABLES
  script,      \* the script this run executes
  run,         \* number of the run, 1..MaxRuns
  pc,          \* the statement the script is about to execute
  exc,         \* the call whose error is propagating, or "none"
  trace,       \* the driver calls this run has attempted, in order
  playwright,  \* the driver of sync_playwright(): "none", "started", "stopped"
  browser,     \* the browser handle: "none", "open", "closed"
  page,        \* the page of the browser, or NoPage
  serverUp,    \* whether http://localhost:3000 answers during this run
  files,       \* the screenshot files on disk
  written,     \* the paths this run has written
  captures,    \* screenshots written so far, over all runs
  outcome      \* "running", "success" (exit 0) or "failure" (uncaught error)

vars == <<script, run, pc, exc, trace, playwright, browser, page, serverUp,
          files, written, captures, outcome>>

NoPage == [loaded |-> FALSE, hasInput |-> FALSE, hasTracker |-> FALSE,
           tagging |-> FALSE, value |-> ""]

\* The path= argument of page.screenshot in each script.
ScreenshotPathPerRun(s) ==
  IF s = CONTEXT_TRACKER
    THEN "jules-scratch/verification/context_tracker" \o ToString(run) \o ".png"
    ELSE "jules-scratch/verification/verification" \o ToString(run) \o ".png"
ScreenshotPath(s) ==
  IF s = CONTEXT_TRACKER
    THEN "jules-scratch/verification/context_tracker.png"
    ELSE "jules-scratch/verification/verification.png"

\* page.screenshot(path=...) names a path and nothing else; full_page keeps
\* the driver's default, False (the visible viewport).
ScreenshotArgsFullPage(s) == [path |-> ScreenshotPath(s), full_page |-> TRUE]
ScreenshotArgs(s) == [path |-> ScreenshotPath(s), full_page |-> FALSE]

\* The calls of each script in program order.
RunVerificationSwapped ==
  <<"goto", "fill", "click", "visible", "value", "screenshot">>
run_verification ==
  <<"goto", "fill", "visible", "click", "value", "screenshot">>

DocumentTaggingCalls == <<"launch", "new_page">> \o run_verification \o <<"close">>

ContextTrackerCallsWithAssert ==
  <<"launch", "new_page", "goto", "visible", "screenshot", "close">>
ContextTrackerCalls == <<"launch", "new_page", "goto", "screenshot", "close">>

Calls(s) == IF s = CONTEXT_TRACKER THEN ContextTrackerCalls ELSE DocumentTaggingCalls

IndexOf(seq, x) == CHOOSE i \in 1..Len(seq) : seq[i] = x

\* The statement after `call` when it completes: the next call of the script,
\* or the end of the with block after the last one.
After(s, call) ==
  LET i == IndexOf(Calls(s), call)
  IN IF i < Len(Calls(s)) THEN Calls(s)[i + 1] ELSE "exit"

\* Where control goes when `call` raises.  Only the tagging script has a
\* handler: run_verification(page) sits in try ... finally: browser.close().
\* Everything else leaves the with block at once.
InTry(s, call) ==
  /\ s = DOCUMENT_TAGGING
  /\ \E i \in 1..Len(run_verification) : run_verification[i] = call

OnRaiseNoFinally(s, call) == "exit"
OnRaise(s, call) == IF InTry(s, call) THEN "close" ELSE "exit"

\* expect(locator).to_be_visible(): passes when the element is visible
\* within the wait.
ToBeVisibleUnchecked(p) == TRUE
ToBeVisible(p) == p.tagging

\* expect(locator).to_have_value(expected): passes when the value is the
\* expected string, character for character.
ToHaveValue(actual, expected) == actual = expected

\* A driver call: it is recorded, and it completes or raises.
Attempt(call, ok) ==
  /\ trace' = Append(trace, call)
  /\ IF ok
       THEN pc' = After(script, call) /\ exc' = exc
       ELSE pc' = OnRaise(script, call) /\ exc' = call

At(s, call) == script = s /\ pc = call

Init ==
  /\ script \in Scripts
  /\ run = 1
  /\ pc = "with"
  /\ exc = "none"
  /\ trace = <<>>
  /\ playwright = "none"
  /\ browser = "none"
  /\ page = NoPage
  /\ serverUp \in BOOLEAN
  /\ files = {}
  /\ written = {}
  /\ captures = 0
  /\ outcome = "running"

\* with sync_playwright() as p:
EnterWith ==
  /\ pc = "with"
  /\ playwright' = "started"
  /\ pc' = Calls(script)[1]
  /\ UNCHANGED <<script, run, exc, trace, browser, page, serverUp, files,
                 written, captures, outcome>>

\* browser = p.chromium.launch(...)
Launch ==
  /\ pc = "launch"
  /\ \E ok \in BOOLEAN :
       /\ Attempt("launch", ok)
       /\ browser' = IF ok THEN "open" ELSE browser
  /\ UNCHANGED <<script, run, playwright, page, serverUp, files, written,
                 captures, outcome>>

\* page = browser.new_page()
NewPage ==
  /\ pc = "new_page"
  /\ \E ok \in BOOLEAN : Attempt("new_page", ok)
  /\ UNCHANGED <<script, run, playwright, browser, page, serverUp, files,
                 written, captures, outcome>>

\* page.goto("http://localhost:3000"): an unreachable server or a page that
\* does not finish loading within the driver's timeout raises.
GotoWithoutTimeout ==
  /\ pc = "goto"
  /\ serverUp
  /\ \E input \in BOOLEAN, tracker \in BOOLEAN :
       /\ Attempt("goto", TRUE)
       /\ page' = [loaded |-> TRUE, hasInput |-> input,
                   hasTracker |-> tracker, tagging |-> FALSE, value |-> ""]
  /\ UNCHANGED <<script, run, playwright, browser, serverUp, files, written,
                 captures, outcome>>
Goto ==
  /\ pc = "goto"
  /\ \E loads \in BOOLEAN, input \in BOOLEAN, tracker \in BOOLEAN :
       LET ok == serverUp /\ loads
       IN /\ Attempt("goto", ok)
          /\ page' = IF ok
                       THEN [loaded |-> TRUE, hasInput |-> input,
                             hasTracker |-> tracker, tagging |-> FALSE,
                             value |-> ""]
                       ELSE page
  /\ UNCHANGED <<script, run, playwright, browser, serverUp, files, written,
                 captures, outcome>>

\* chat_input = page.get_by_test_id("multimodal-input"); chat_input.fill("@")
Fill ==
  /\ At(DOCUMENT_TAGGING, "fill")
  /\ Attempt("fill", page.hasInput)
  /\ IF page.hasInput
       THEN \E shows \in BOOLEAN :
              page' = [page EXCEPT !.value = "@", !.tagging = shows]
       ELSE page' = page
  /\ UNCHANGED <<script, run, playwright, browser, serverUp, files, written,
                 captures, outcome>>

\* expect(page.get_by_test_id("document-tagging")).to_be_visible()
ExpectVisible ==
  /\ At(DOCUMENT_TAGGING, "visible")
  /\ Attempt("visible", ToBeVisible(page))
  /\ UNCHANGED <<script, run, playwright, browser, page, serverUp, files,
                 written, captures, outcome>>

\* page.get_by_text(document_to_select).click()
Click ==
  /\ At(DOCUMENT_TAGGING, "click")
  /\ \E listed \in BOOLEAN :
       /\ Attempt("click", listed)
       /\ IF listed
            THEN \E v \in InputValues : page' = [page EXCEPT !.value = v]
            ELSE page' = page
  /\ UNCHANGED <<script, run, playwright, browser, serverUp, files, written,
                 captures, outcome>>

\* expect(chat_input).to_have_value(f" @{document_to_select} ")
ExpectValue ==
  /\ At(DOCUMENT_TAGGING, "value")
  /\ Attempt("value", ToHaveValue(page.value, ExpectedValue))
  /\ UNCHANGED <<script, run, playwright, browser, page, serverUp, files,
                 written, captures, outcome>>

\* page.screenshot(path=...): the file at path is replaced.
Screenshot ==
  /\ pc = "screenshot"
  /\ \E ok \in BOOLEAN :
       /\ Attempt("screenshot", ok)
       /\ LET a == ScreenshotArgs(script)
          IN IF ok
               THEN /\ files' = {f \in files : f.path /= a.path} \cup {a}
                    /\ written' = written \cup {a.path}
                    /\ captures' = captures + 1
               ELSE UNCHANGED <<files, written, captures>>
  /\ UNCHANGED <<script, run, playwright, browser, page, serverUp, outcome>>

\* browser.close(): the last statement of the with block in the context
\* tracker script, the finally clause in the tagging script.
Close ==
  /\ pc = "close"
  /\ trace' = Append(trace, "close")
  /\ browser' = "closed"
  /\ pc' = "exit"
  /\ UNCHANGED <<script, run, exc, playwright, page, serverUp, files, written,
                 captures, outcome>>

\* The with block is left: the driver stops, and an error that is still
\* propagating ends the process.
ExitWith ==
  /\ pc = "exit"
  /\ playwright' = "stopped"
  /\ outcome' = IF exc = "none" THEN "success" ELSE "failure"
  /\ pc' = "done"
  /\ UNCHANGED <<script, run, exc, trace, browser, page, serverUp, files,
                 written, captures>>

\* One of the scripts is run again; only the disk outlives a run.
StartRun ==
  /\ pc = "done"
  /\ run < MaxRuns
  /\ run' = run + 1
  /\ script' \in Scripts
  /\ serverUp' \in BOOLEAN
  /\ pc' = "with"
  /\ exc' = "none"
  /\ trace' = <<>>
  /\ playwright' = "none"
  /\ browser' = "none"
  /\ page' = NoPage
  /\ written' = {}
  /\ outcome' = "running"
  /\ UNCHANGED <<files, captures>>

Step ==
  \/ EnterWith
  \/ Launch
  \/ NewPage
  \/ Goto
  \/ Fill
  \/ ExpectVisible
  \/ Click
  \/ ExpectValue
  \/ Screenshot
  \/ Close
  \/ ExitWith

Next == Step \/ StartRun

Spec == Init /\ [][Next]_vars

\* Every driver call blocks until it completes or times out, so a script
\* that has a statement left executes it.
FairSpec == Spec /\ WF_vars(Step)

----------------------------------------------------------------------------
(* Vocabulary of the properties *)

Attempted(call) == \E i \in 1..Len(trace) : trace[i] = call
Succeeded(call) == Attempted(call) /\ exc /= call
Terminal == pc = "done"

TaggingPath == "jules-scratch/verification/verification.png"
TrackerPath == "jules-scratch/verification/context_tracker.png"
FixedPath == IF script = CONTEXT_TRACKER THEN TrackerPath ELSE TaggingPath

IsPrefix(s, t) == Len(s) <= Len(t) /\ \A i \in 1..Len(s) : s[i] = t[i]
NotClose(c) == c /= "close"

\* The steps the run is made of, as opposed to bootstrap and teardown.
RunSteps == {"goto", "fill", "visible", "click", "value", "screenshot"}

\* C1: in the tagging script, once the browser is launched and the page is
\* opened, every way out of the script passes through browser.close(): the
\* with block is never left, and the process never ends, with the browser
\* still open.
C1_TaggingAlwaysCloses ==
  (script = DOCUMENT_TAGGING /\ Succeeded("new_page") /\ pc \in {"exit", "done"})
    => (Attempted("close") /\ browser = "closed")

\* C1 witness: a tagging run whose visibility assertion failed has ended,
\* and the browser is closed.
C1_Witness ==
  /\ script = DOCUMENT_TAGGING
  /\ Terminal
  /\ exc = "visible"
  /\ browser = "closed"

\* C2: in the context-tracker script browser.close() has run by the end of
\* every run that opened the page, whether goto and screenshot succeeded or
\* one of them failed.
C2_TrackerAlwaysCloses ==
  (script = CONTEXT_TRACKER /\ Succeeded("new_page") /\ Terminal)
    => Attempted("close")

\* C3: the tagging script attempts launch, new_page, goto, fill, visible,
\* click, value, screenshot in that order, each at most once and none
\* skipped; a call is attempted only after every earlier one succeeded;
\* close comes once, last; a successful run made all the calls.
C3_StrictOrder ==
  script = DOCUMENT_TAGGING =>
    LET body == SelectSeq(trace, NotClose)
    IN /\ IsPrefix(body, <<"launch", "new_page", "goto", "fill", "visible",
                           "click", "value", "screenshot">>)
       /\ \A i \in 1..Len(body) : i < Len(body) => exc /= body[i]
       /\ \A i \in 1..Len(trace) : trace[i] = "close" => i = Len(trace)
       /\ outcome = "success" =>
            trace = <<"launch", "new_page", "goto", "fill", "visible",
                      "click", "value", "screenshot", "close">>

\* C3 witness: a tagging run has succeeded after all nine calls.
C3_Witness ==
  /\ script = DOCUMENT_TAGGING
  /\ outcome = "success"
  /\ Len(trace) = 9

\* C4: when the document-tagging element is not visible at the visibility
\* assertion, the assertion raises, the run makes no click, no value
\* assertion and no screenshot, writes no file, and ends in failure.
C4_NotVisibleAborts ==
  (script = DOCUMENT_TAGGING /\ Attempted("visible") /\ ~page.tagging) =>
    /\ exc = "visible"
    /\ ~Attempted("click")
    /\ ~Attempted("value")
    /\ ~Attempted("screenshot")
    /\ written = {}
    /\ outcome /= "success"
    /\ Terminal => outcome = "failure"

\* C4 witness: a tagging run has ended in failure at the visibility
\* assertion, the element never having been shown.
C4_Witness ==
  /\ script = DOCUMENT_TAGGING
  /\ Terminal
  /\ ~page.tagging
  /\ exc = "visible"
  /\ outcome = "failure"

\* C5: a run ends in failure exactly when some call failed and in success
\* exactly when every call of the script completed, and when a step of the
\* run failed the browser teardown has run before the process ends.
C5_FailureIffStepFailedAfterTeardown ==
  Terminal =>
    /\ outcome = "failure" <=> exc /= "none"
    /\ outcome = "success" <=> (\A c \in RunSteps : Attempted(c) => Succeeded(c))
                                 /\ Attempted("screenshot")
    /\ exc \in RunSteps => Attempted("close")

\* C6: the value assertion passes exactly when the chat input holds
\* " @Monet " after the click; with any other value it raises, no
\* screenshot is taken and the run ends in failure.
C6_ExactValue ==
  (script = DOCUMENT_TAGGING /\ Attempted("value")) =>
    /\ Succeeded("value") <=> page.value = " @Monet "
    /\ page.value /= " @Monet " =>
         /\ ~Attempted("screenshot")
         /\ written = {}
         /\ outcome /= "success"
         /\ Terminal => outcome = "failure"

\* C6 witness: a run has failed on a value that lacks only the trailing
\* space.
C6_Witness ==
  /\ script = DOCUMENT_TAGGING
  /\ Terminal
  /\ page.value = " @Monet"
  /\ exc = "value"
  /\ outcome = "failure"

\* C7: a run writes nothing but its script's fixed path, a successful run
\* writes exactly that path, a run that has not reached the capture has
\* written nothing, and however many runs have captured, the disk holds at
\* most one file per fixed path.
C7_OneFixedFile ==
  /\ written \subseteq {FixedPath}
  /\ outcome = "success" => written = {FixedPath}
  /\ ~Attempted("screenshot") => written = {}
  /\ \A f \in files : f.path \in {TrackerPath, TaggingPath}
  /\ \A f, g \in files : f.path = g.path => f = g
  /\ Cardinality(files) <= 2
  /\ captures > 0 => files /= {}

\* C7 witness: two runs have each written a screenshot and the disk holds
\* one file.
C7_Witness ==
  /\ captures = 2
  /\ Cardinality(files) = 1
  /\ outcome = "success"

\* C8: every run reaches the end of the script; a goto against a server
\* that is down raises; no call is made twice in a run.
C8_Terminates ==
  /\ (pc /= "done") ~> (pc = "done")
  /\ [](Attempted("goto") /\ ~serverUp => exc = "goto")
  /\ [](\A i, j \in 1..Len(trace) : trace[i] = trace[j] => i = j)

\* C8 witness: a run against a server that is down has ended with the
\* navigation failure.
C8_Witness ==
  /\ Terminal
  /\ ~serverUp
  /\ exc = "goto"
  /\ outcome = "failure"

\* C9 as stated: every screenshot on disk is a full-page capture.
C9_FullPage == \A f \in files : f.full_page

\* C9 amended: a capture that succeeded left a file at the script's fixed
\* path, and every screenshot on disk is a capture of the visible viewport
\* (page.screenshot is called with path alone).
C9_ViewportToFixedPath ==
  /\ Succeeded("screenshot") =>
       [path |-> FixedPath, full_page |-> FALSE] \in files
  /\ \A f \in files : ~f.full_page

\* C9 witness: a screenshot has been taken.
C9_Witness ==
  /\ Succeeded("screenshot")
  /\ files /= {}

\* The state of the linear progression a run is in, by its last successful
\* call.
Phase ==
  IF Succeeded("close") THEN "Closed"
  ELSE IF Succeeded("screenshot") THEN "Captured"
  ELSE IF Succeeded("value") \/ Succeeded("visible") THEN "Asserted"
  ELSE IF Succeeded("click") \/ Succeeded("fill") THEN "Interacted"
  ELSE IF Succeeded("goto") THEN "Navigated"
  ELSE "Idle"

\* C10: the context-tracker script makes no fill, click or assertion; it
\* passes through Idle, Navigated, Captured and Closed only; and a run whose
\* goto and screenshot succeeded ends in success with context_tracker.png
\* written, whether or not the page shows a context tracker.
C10_TrackerNoAssertion ==
  script = CONTEXT_TRACKER =>
    /\ pc \in {"with", "launch", "new_page", "goto", "screenshot", "close",
               "exit", "done"}
    /\ \A c \in {"fill", "visible", "click", "value"} : ~Attempted(c)
    /\ Phase \in {"Idle", "Navigated", "Captured", "Closed"}
    /\ (Succeeded("goto") /\ Succeeded("screenshot")) =>
         /\ written = {TrackerPath}
         /\ outcome /= "failure"
         /\ Terminal => outcome = "success"

\* C10 witness: a context-tracker run has succeeded on a page without a
\* context tracker.
C10_Witness ==
  /\ script = CONTEXT_TRACKER
  /\ Terminal
  /\ page.loaded
  /\ ~page.hasTracker
  /\ outcome = "success"
  /\ written = {TrackerPath}
====
